---- MODULE Spec2Model ----
(***************************************************************************)
(* Wheel4: the resilient LLM request pipeline of src/ai_service.py.        *)
(*                                                                         *)
(* Spec models one call of get_ai_response: the retry loop, the request    *)
(* built by _make_simple_ai_request, the worker thread and result queue of *)
(* call_openai_with_enhanced_timeout, the OpenAI client configured with    *)
(* max_retries=1, and the passing of wall-clock time (seconds).            *)
(*                                                                         *)
(* PlanSpec, EstSpec, ImgSpec and NormSpec each model calls of a pure      *)
(* function on inputs drawn from a bounded set: the token planning of      *)
(* _make_simple_ai_request, estimate_tokens_accurately,                    *)
(* estimate_image_tokens, and extract_json_from_response with the          *)
(* functions it calls.                                                     *)
(*                                                                         *)
(* RunSpec models one run of the AIWorkerThread of src/ui.py, which calls   *)
(* get_ai_response, and UISpec the window that starts the threads, its     *)
(* timeout timer and the handlers of the signals.                          *)
(***************************************************************************)
EXTENDS Integers, Sequences, FiniteSets, TLC

VARIABLES
    pc,               \* position of get_ai_response: loop, sleeping, request, waiting, done
    attempt,          \* the loop variable of get_ai_response
    timer,            \* seconds spent in the current time.sleep / result_queue.get
    delay,            \* argument of the current time.sleep
    sleeps,           \* history: the delays slept so far, in order
    watchdog,         \* timeout of the current result_queue.get(timeout=...)
    api_thread,       \* per attempt: the worker thread running api_call
    result_queue,     \* per attempt: the content of its queue.Queue()
    outcomes,         \* history: the classified outcome of each finished attempt
    result,           \* the value get_ai_response returned
    transportCalls,   \* history: calls of client.chat.completions.create
    networkRequests,  \* history: HTTP requests sent by the client library
    api_key,          \* what get_api_key() returns: TRUE a key, FALSE None
    plan,             \* PlanSpec: the token counts and the response-token cap
    est,              \* EstSpec: a text and its token estimate
    norm,             \* NormSpec: the input of extract_json_from_response and its result
    ui                \* UISpec: the window, its AIWorkerThreads and its timeout timer

vars == <<pc, attempt, timer, delay, sleeps, watchdog, api_thread, result_queue,
          outcomes, result, transportCalls, networkRequests, api_key,
          plan, est, norm, ui>>

\* The value of plan, est, norm and ui in a specification that does not use
\* them.
Idle == [st |-> "idle"]

----------------------------------------------------------------------------
(* Bounds of the model *)

TickLen == 20   \* time advances by at most this many seconds in one step
MaxCore == 10   \* longest trimmed length of a reply text
MaxPad == 1     \* most leading whitespace characters of a reply text

(* Constants of the program *)

max_retries == 3            \* get_ai_response
base_delay == 2             \* get_ai_response
RequestTimeout == 40        \* timeout=40 passed by _make_simple_ai_request
TimeoutMargin == 5          \* timeout=timeout - 5 passed to create()
ClientMaxRetries == 1       \* openai.OpenAI(max_retries=1)
MinResponseLen == 10        \* len(ai_response.strip()) < 10

----------------------------------------------------------------------------
(* Texts.  A text is its leading whitespace, its trimmed core and its      *)
(* trailing whitespace; absent is Python's None.                           *)

Text(l, c, t) == [absent |-> FALSE, lead |-> l, core |-> c, trail |-> t]
NoneText == [absent |-> TRUE, lead |-> 0, core |-> 0, trail |-> 0]
Cores == {0} \cup ((MinResponseLen - 1)..MaxCore)
Texts == {Text(l, c, 0) : l \in 0..MaxPad, c \in Cores}
Replies == Texts \cup {NoneText}

TextLen(x) == x.lead + x.core + x.trail
Strip(x) == [x EXCEPT !.lead = 0, !.trail = 0]
Truthy(x) == ~x.absent /\ TextLen(x) > 0

----------------------------------------------------------------------------
(* Values returned by _make_simple_ai_request and get_ai_response *)

NotReturned == [tag |-> "running", text |-> NoneText, msg |-> "", attempts |-> 0]
PyNone == [tag |-> "None", text |-> NoneText, msg |-> "", attempts |-> 0]
TextResult(x) == [tag |-> "text", text |-> x, msg |-> "", attempts |-> 0]
\* {"error": m}.  attempts is the attempt count written into the message: only
\* the except clause of get_ai_response writes one ("All 3 attempts failed"),
\* and it is reached only when _make_simple_ai_request raises, which its own
\* try/except Exception around the whole body prevents.
ErrorResult(m) == [tag |-> "error", text |-> NoneText, msg |-> m, attempts |-> 0]

MsgNoKey == "No API key configured"
MsgTimedOut == "API call timed out. Please check your internet connection and try again."
MsgRateLimit == "API rate limit exceeded. Please try again in a moment."
MsgInvalidKey == "Invalid API key. Please check your OpenAI API key in settings."
MsgApiError == "API error: ... Please try again."
MsgEmpty == "Received empty or invalid response from AI"
MsgExtract == "Failed to extract response: ..."
Messages == {MsgNoKey, MsgTimedOut, MsgRateLimit, MsgInvalidKey, MsgApiError,
             MsgEmpty, MsgExtract}

----------------------------------------------------------------------------
(* The worker thread of one attempt *)

NoThread == [st |-> "none", elapsed |-> 0, nreq |-> 0, timeout |-> 0]
Attempts == 0..(max_retries - 1)

EmptyQueue == [type |-> "empty", exc |-> "", text |-> NoneText]
QueueItem(ty, e, x) == [type |-> ty, exc |-> e, text |-> x]

SharedQueue(a) == 0

\* result_queue = queue.Queue(): each call of
\* call_openai_with_enhanced_timeout makes the queue its thread puts into
\* and its get reads from
QueueOf(a) == a

\* What one HTTP request of the client can end with, besides its own timeout.
HttpErrors == {"RateLimitError", "AuthenticationError", "BadRequestError",
               "APIConnectionError", "OtherError"}

\* The client library sends the request again after these, max_retries times.
LibRetries(exc) == exc \in {"RateLimitError", "APIConnectionError", "APITimeoutError"}

\* api_call's except chain: the queue item put for an exception of create().
ItemFor(exc) ==
    IF exc = "APITimeoutError" THEN QueueItem("timeout", exc, NoneText)
    ELSE IF exc = "APIConnectionError" THEN QueueItem("connection_error", exc, NoneText)
    ELSE QueueItem("error", exc, NoneText)

TransportTimeoutAdded(timeout) == timeout + TimeoutMargin

\* timeout=timeout - 5 of client.chat.completions.create
TransportTimeout(timeout) == timeout - TimeoutMargin

----------------------------------------------------------------------------
(* _make_simple_ai_request, steps 9 and 10: from the queue item to the     *)
(* value returned.                                                         *)

TooShortUnstripped(x) == ~Truthy(x) \/ TextLen(x) < MinResponseLen

\* Step 10: not ai_response or len(ai_response.strip()) < 10
TooShort(x) == ~Truthy(x) \/ TextLen(Strip(x)) < MinResponseLen

\* Step 10; len(None) raises inside the try and is reported as an error.
ExtractResponse(x) ==
    IF x.absent THEN ErrorResult(MsgExtract)
    ELSE IF TooShort(x) THEN ErrorResult(MsgEmpty)
    ELSE TextResult(x)

\* Step 9: the exception call_openai_with_enhanced_timeout raises for a queue
\* item, and the except clause of _make_simple_ai_request that catches it.
RequestResult(item) ==
    IF item.type = "success" THEN ExtractResponse(item.text)
    ELSE IF item.type = "timeout" THEN ErrorResult(MsgTimedOut)
    ELSE IF item.type = "connection_error" THEN ErrorResult(MsgApiError)
    ELSE IF item.exc = "RateLimitError" THEN ErrorResult(MsgRateLimit)
    ELSE IF item.exc = "AuthenticationError" THEN ErrorResult(MsgInvalidKey)
    ELSE ErrorResult(MsgApiError)

\* The outcome of an attempt, by what the transport delivered.
OutcomeOf(item) ==
    IF item.type = "success"
    THEN (IF ExtractResponse(item.text).tag = "text" THEN "Success"
          ELSE "EmptyOrMalformedOutput")
    ELSE IF item.type = "timeout" THEN "TimedOut"
    ELSE IF item.type = "connection_error" THEN "ConnectionFailed"
    ELSE IF item.exc = "RateLimitError" THEN "RateLimited"
    ELSE IF item.exc = "AuthenticationError" THEN "AuthFailed"
    ELSE IF item.exc = "BadRequestError" THEN "BadRequest"
    ELSE "Unknown"

----------------------------------------------------------------------------
(* get_ai_response *)

RECURSIVE Pow2(_)
Pow2(n) == IF n = 0 THEN 1 ELSE 2 * Pow2(n - 1)

BackoffNextPower(a) == base_delay * Pow2(a)

\* delay = base_delay * (2 ** (attempt - 1))
Backoff(a) == base_delay * Pow2(a - 1)

IsSuccessDictOnly(res) == res.tag = "dict"

\* result and not (isinstance(result, dict) and "error" in result)
IsSuccess(res) == res.tag = "text" /\ Truthy(res.text)

ShouldRetryOneLess(a) == a < max_retries - 2
ShouldRetryOneMore(a) == a < max_retries

\* attempt < max_retries - 1
ShouldRetry(a) == a < max_retries - 1

\* Lines 44-51 and the loop header: what the loop does with the value of one
\* attempt.  Falling out of the for loop returns None.
Finish(res, kind) ==
    /\ outcomes' = Append(outcomes, kind)
    /\ timer' = 0
    /\ IF IsSuccess(res) \/ ~ShouldRetry(attempt)
       THEN /\ pc' = "done"
            /\ result' = res
            /\ attempt' = attempt
       ELSE /\ attempt' = attempt + 1
            /\ IF attempt + 1 < max_retries
               THEN pc' = "loop" /\ result' = result
               ELSE pc' = "done" /\ result' = PyNone

Init ==
    /\ pc = "loop"
    /\ attempt = 0
    /\ timer = 0
    /\ delay = 0
    /\ sleeps = <<>>
    /\ watchdog = 0
    /\ api_thread = [a \in Attempts |-> NoThread]
    /\ result_queue = [a \in Attempts |-> EmptyQueue]
    /\ outcomes = <<>>
    /\ result = NotReturned
    /\ transportCalls = 0
    /\ networkRequests = 0
    /\ api_key \in BOOLEAN
    /\ plan = Idle /\ est = Idle /\ norm = Idle /\ ui = Idle

\* for attempt in range(max_retries): if attempt > 0: ... time.sleep(delay)
StartAttempt ==
    /\ pc = "loop"
    /\ IF attempt > 0
       THEN pc' = "sleeping" /\ delay' = Backoff(attempt) /\ timer' = 0
       ELSE pc' = "request" /\ delay' = delay /\ timer' = 0
    /\ UNCHANGED <<attempt, sleeps, watchdog, api_thread, result_queue, outcomes,
                   result, transportCalls, networkRequests, api_key,
                   plan, est, norm, ui>>

\* time.sleep(delay) returns
FinishSleep ==
    /\ pc = "sleeping"
    /\ timer >= delay
    /\ sleeps' = Append(sleeps, delay)
    /\ timer' = 0
    /\ pc' = "request"
    /\ UNCHANGED <<attempt, delay, watchdog, api_thread, result_queue,
                   outcomes, result, transportCalls, networkRequests, api_key,
                   plan, est, norm, ui>>

\* _make_simple_ai_request, step 2: no key, the error is returned undispatched
NoApiKey ==
    /\ pc = "request"
    /\ ~api_key
    /\ Finish(ErrorResult(MsgNoKey), "NotDispatched")
    /\ UNCHANGED <<delay, sleeps, watchdog, api_thread, result_queue,
                   transportCalls, networkRequests, api_key,
                   plan, est, norm, ui>>

\* _make_simple_ai_request, steps 3 to 9, and call_openai_with_enhanced_timeout
\* up to api_thread.start(): the thread calls create(), which sends a request.
Dispatch ==
    /\ pc = "request"
    /\ api_key
    /\ \E hangs \in BOOLEAN :
         api_thread' = [api_thread EXCEPT ![attempt] =
             [st |-> IF hangs THEN "hung" ELSE "running", elapsed |-> 0, nreq |-> 1,
              timeout |-> TransportTimeout(RequestTimeout)]]
    /\ result_queue' = [result_queue EXCEPT ![QueueOf(attempt)] = EmptyQueue]
    /\ transportCalls' = transportCalls + 1
    /\ networkRequests' = networkRequests + 1
    /\ watchdog' = RequestTimeout
    /\ timer' = 0
    /\ pc' = "waiting"
    /\ UNCHANGED <<attempt, delay, sleeps, outcomes, result, api_key,
                   plan, est, norm, ui>>

\* result_queue.get(timeout=timeout) returns an item
Receive ==
    /\ pc = "waiting"
    /\ result_queue[QueueOf(attempt)] # EmptyQueue
    /\ Finish(RequestResult(result_queue[QueueOf(attempt)]),
              OutcomeOf(result_queue[QueueOf(attempt)]))
    /\ result_queue' = [result_queue EXCEPT ![QueueOf(attempt)] = EmptyQueue]
    /\ UNCHANGED <<delay, sleeps, watchdog, api_thread, transportCalls,
                   networkRequests, api_key,
                   plan, est, norm, ui>>

WatchdogNever == FALSE

\* result_queue.get(timeout=timeout) raises queue.Empty
WatchdogExpired == timer >= watchdog

WatchdogFires ==
    /\ pc = "waiting"
    /\ result_queue[QueueOf(attempt)] = EmptyQueue
    /\ WatchdogExpired
    /\ Finish(ErrorResult(MsgTimedOut), "TimedOut")
    /\ UNCHANGED <<delay, sleeps, watchdog, api_thread, result_queue,
                   transportCalls, networkRequests, api_key,
                   plan, est, norm, ui>>

----------------------------------------------------------------------------
(* api_call, in the worker thread of attempt a *)

\* create() returned a completion: result_queue.put(("success", response))
ReplyArrives(a) ==
    /\ api_thread[a].st = "running"
    /\ \E x \in Replies :
         result_queue' = [result_queue EXCEPT ![QueueOf(a)] = QueueItem("success", "", x)]
    /\ api_thread' = [api_thread EXCEPT ![a].st = "finished", ![a].elapsed = 0]
    /\ UNCHANGED <<pc, attempt, timer, delay, sleeps, watchdog, outcomes, result,
                   transportCalls, networkRequests, api_key,
                   plan, est, norm, ui>>

RetriesLeftOneMore(n) == n <= ClientMaxRetries + 1

\* The client built with max_retries=1 has retries left after n requests.
RetriesLeft(n) == n <= ClientMaxRetries

\* A request of create() failed with exc: the client sends it again while it
\* has retries left, else create() raises and api_call puts the exception.
RequestFailed(a, exc) ==
    IF LibRetries(exc) /\ RetriesLeft(api_thread[a].nreq)
    THEN /\ api_thread' = [api_thread EXCEPT ![a].nreq = @ + 1, ![a].elapsed = 0]
         /\ networkRequests' = networkRequests + 1
         /\ result_queue' = result_queue
    ELSE /\ api_thread' = [api_thread EXCEPT ![a].st = "finished", ![a].elapsed = 0]
         /\ networkRequests' = networkRequests
         /\ result_queue' = [result_queue EXCEPT ![QueueOf(a)] = ItemFor(exc)]

ErrorArrives(a) ==
    /\ api_thread[a].st = "running"
    /\ \E exc \in HttpErrors : RequestFailed(a, exc)
    /\ UNCHANGED <<pc, attempt, timer, delay, sleeps, watchdog, outcomes, result,
                   transportCalls, api_key,
                   plan, est, norm, ui>>

\* The request ran for the timeout passed to create()
TransportTimesOut(a) ==
    /\ api_thread[a].st = "running"
    /\ api_thread[a].elapsed >= api_thread[a].timeout
    /\ RequestFailed(a, "APITimeoutError")
    /\ UNCHANGED <<pc, attempt, timer, delay, sleeps, watchdog, outcomes, result,
                   transportCalls, api_key,
                   plan, est, norm, ui>>

----------------------------------------------------------------------------
(* Time *)

Min(S) == CHOOSE x \in S : \A y \in S : x <= y

Running == {a \in Attempts : api_thread[a].st = "running"}

\* Seconds left until get_ai_response or a running request reaches a deadline
Remaining ==
    {api_thread[a].timeout - api_thread[a].elapsed : a \in Running}
    \cup (IF pc = "sleeping" THEN {delay - timer} ELSE {})
    \cup (IF pc = "waiting" THEN {watchdog - timer} ELSE {})

\* Time passes while get_ai_response is blocked and no deadline is due.
Tick ==
    /\ pc \in {"sleeping", "waiting", "done"}
    /\ pc = "waiting" => result_queue[QueueOf(attempt)] = EmptyQueue
    /\ Remaining # {}
    /\ \A r \in Remaining : r > 0
    /\ LET d == Min(Remaining \cup {TickLen}) IN
         /\ timer' = IF pc \in {"sleeping", "waiting"} THEN timer + d ELSE timer
         /\ api_thread' = [a \in Attempts |->
                IF a \in Running
                THEN [api_thread[a] EXCEPT !.elapsed = @ + d]
                ELSE api_thread[a]]
    /\ UNCHANGED <<pc, attempt, delay, sleeps, watchdog, result_queue, outcomes,
                   result, transportCalls, networkRequests, api_key,
                   plan, est, norm, ui>>

Next ==
    \/ StartAttempt
    \/ FinishSleep
    \/ NoApiKey
    \/ Dispatch
    \/ Receive
    \/ WatchdogFires
    \/ \E a \in Attempts : ReplyArrives(a)
    \/ \E a \in Attempts : ErrorArrives(a)
    \/ \E a \in Attempts : TransportTimesOut(a)
    \/ Tick

Spec == Init /\ [][Next]_vars

\* Threads run and time passes: the system does not stop while a step is possible.
LiveSpec == Spec /\ WF_vars(Next)

----------------------------------------------------------------------------
(* Properties *)

InFlight == {a \in Attempts : api_thread[a].st \in {"running", "hung"}}
Dispatched == {a \in Attempts : api_thread[a].st # "none"}

RECURSIVE SumRequests(_)
SumRequests(S) ==
    IF S = {} THEN 0
    ELSE LET a == CHOOSE x \in S : TRUE IN api_thread[a].nreq + SumRequests(S \ {a})

Last(q) == q[Len(q)]

\* C1: an attempt classified AuthFailed or BadRequest ends the loop at once:
\* it is the last attempt, its error is returned, and when it is the first
\* attempt the transport was called exactly once.
C1_NonRetryableStopsLoop ==
    \A i \in DOMAIN outcomes :
        outcomes[i] \in {"AuthFailed", "BadRequest"} =>
            /\ pc = "done"
            /\ Len(outcomes) = i
            /\ result.tag = "error"
            /\ (i = 1 => transportCalls = 1)

\* C2: when every attempt ended with ConnectionFailed, the call has returned an
\* error after exactly 3 calls of the transport; there are never more than 3.
C2_ConnectionFailedThreeCalls ==
    /\ transportCalls <= 3
    /\ (/\ pc = "done"
        /\ outcomes # <<>>
        /\ \A i \in DOMAIN outcomes : outcomes[i] = "ConnectionFailed")
       => (transportCalls = 3 /\ Len(outcomes) = 3 /\ result.tag = "error")

C2_Witness ==
    /\ pc = "done"
    /\ outcomes = <<"ConnectionFailed", "ConnectionFailed", "ConnectionFailed">>
    /\ transportCalls = 3
    /\ result = ErrorResult(MsgApiError)

\* C3: when the attempts are used up without a success, the returned error
\* carries the number of attempts made.
C3_ExhaustionReportsAttempts ==
    (pc = "done" /\ result.tag # "text" /\ Len(outcomes) = max_retries)
        => (result.tag = "error" /\ result.attempts = max_retries)

\* C4 as stated: while an attempt waits, the watchdog deadline is strictly
\* shorter than the timeout passed to the transport call.
C4_WatchdogShorterThanTransport ==
    pc = "waiting" => watchdog < api_thread[attempt].timeout

\* C4 amended: while an attempt waits, the timeout passed to the transport
\* call (35) is strictly shorter than the watchdog deadline (40), and the
\* watchdog fires only on a call that hangs or whose request was sent again.
C4_TransportShorterThanWatchdog ==
    /\ [](pc = "waiting" =>
            /\ api_thread[attempt].timeout < watchdog
            /\ api_thread[attempt].timeout = 35
            /\ watchdog = 40)
    /\ [][WatchdogFires =>
            (api_thread[attempt].st = "hung" \/ api_thread[attempt].nreq > 1)]_vars

C4_Witness ==
    /\ outcomes # <<>>
    /\ Last(outcomes) = "TimedOut"
    /\ api_thread[Len(outcomes) - 1].st = "running"
    /\ api_thread[Len(outcomes) - 1].nreq = 2
    /\ api_thread[Len(outcomes) - 1].timeout = 35

\* C5: at most one transport call of this get_ai_response is in flight.
C5_OneCallInFlight == Cardinality(InFlight) <= 1

\* C6: with a transport that never returns, every wait ends as TimedOut, no
\* more than max_retries attempts are made, and get_ai_response returns.
C6_HungTransportReturns ==
    /\ <>(pc = "done")
    /\ [](Len(outcomes) <= max_retries)
    /\ [](\A a \in Attempts :
            (api_thread[a].st = "hung" /\ Len(outcomes) > a)
                => outcomes[a + 1] = "TimedOut")

C6_Witness ==
    /\ pc = "done"
    /\ \A a \in Attempts : api_thread[a].st = "hung"
    /\ outcomes = <<"TimedOut", "TimedOut", "TimedOut">>
    /\ result = ErrorResult(MsgTimedOut)

\* C7 as stated: the network requests sent are as many as the attempts that
\* were dispatched.
C7_OneRequestPerAttempt == networkRequests = Cardinality(Dispatched)

\* C7 amended: each dispatched attempt calls the transport once, and that call
\* sends one or two network requests; attempts not dispatched send none.
C7_OneOrTwoRequestsPerAttempt ==
    /\ transportCalls = Cardinality(Dispatched)
    /\ \A a \in Dispatched : api_thread[a].nreq \in {1, 2}
    /\ \A a \in Attempts \ Dispatched : api_thread[a].nreq = 0
    /\ networkRequests = SumRequests(Attempts)

C7_Witness ==
    /\ pc = "done"
    /\ transportCalls = 3
    /\ networkRequests = 5
    /\ api_thread[1].nreq = 1

\* C8: a success is the last attempt: the call has returned its text, and once
\* returned it starts no attempt, takes no sleep and makes no transport call.
C8_SuccessReturnsAtOnce ==
    /\ [](\A i \in DOMAIN outcomes :
            outcomes[i] = "Success" =>
                /\ i = Len(outcomes)
                /\ pc = "done"
                /\ result.tag = "text"
                /\ Len(sleeps) = i - 1
                /\ transportCalls = i)
    /\ [][pc = "done" =>
            /\ pc' = "done"
            /\ UNCHANGED <<attempt, sleeps, transportCalls, outcomes, result>>]_vars

C8_Witness ==
    /\ pc = "done"
    /\ outcomes = <<"RateLimited", "Success">>
    /\ result.tag = "text"
    /\ sleeps = <<2>>
    /\ transportCalls = 2

ShortReply(x) == x.absent \/ x.core < 10

\* C9: a reply that is absent or trims to fewer than 10 characters is never
\* returned: the attempt fails as EmptyOrMalformedOutput, the loop goes on
\* while attempts remain and returns an error after the last one.
C9_ShortReplyIsRetried ==
    /\ [](result.tag = "text" => ~ShortReply(result.text))
    /\ [][(/\ Receive
           /\ result_queue[attempt].type = "success"
           /\ ShortReply(result_queue[attempt].text))
          => /\ Last(outcomes') = "EmptyOrMalformedOutput"
             /\ IF attempt < 2
                THEN pc' = "loop" /\ attempt' = attempt + 1 /\ result' = NotReturned
                ELSE pc' = "done" /\ result'.tag = "error"]_vars

C9_Witness ==
    /\ pc = "done"
    /\ outcomes = <<"EmptyOrMalformedOutput", "EmptyOrMalformedOutput", "Success">>
    /\ result = TextResult(Text(1, 10, 0))

\* C10: what get_ai_response returns is a text that trims to 10 characters or
\* more, or an error with one of the messages; it is never None.
C10_ReturnsTextOrError ==
    /\ pc = "done" <=> result # NotReturned
    /\ pc = "done" =>
        \/ result.tag = "text" /\ ~result.text.absent /\ result.text.core >= 10
        \/ result.tag = "error" /\ result.msg \in Messages

C10_Witness ==
    /\ pc = "done"
    /\ outcomes = <<"RateLimited", "AuthFailed", "Unknown">>
    /\ result = ErrorResult(MsgApiError)

\* C11: no sleep comes before the first attempt, and the sleep before attempt
\* k >= 1 is base_delay * 2^(k-1) seconds: 2 before the second attempt, 4
\* before the third, slept in full.
C11_BackoffDelays ==
    /\ [](/\ Len(sleeps) <= 2
          /\ (Len(sleeps) >= 1 => sleeps[1] = 2)
          /\ (Len(sleeps) >= 2 => sleeps[2] = 4)
          /\ (pc \in {"request", "waiting"} => Len(sleeps) = attempt)
          /\ (pc = "sleeping" => Len(sleeps) = attempt - 1 /\ attempt >= 1))
    /\ [][FinishSleep => timer = delay /\ delay = Last(sleeps')]_vars

C11_Witness ==
    /\ pc = "waiting"
    /\ attempt = 2
    /\ sleeps = <<2, 4>>

\* C27: the outcome an attempt takes from a queue was put there by the
\* worker thread of that same attempt: what the thread of a timed-out
\* attempt delivers late stays in its own queue and is never the outcome of
\* a later attempt.
C27_OutcomeFromOwnQueue ==
    /\ [][Receive => /\ api_thread[attempt].st = "finished"
                     /\ Last(outcomes') = OutcomeOf(result_queue[attempt])]_vars
    /\ [](\A a \in Attempts :
            result_queue[a] # EmptyQueue => api_thread[a].st = "finished" /\ a <= attempt)

\* attempt 0 timed out, its thread delivered while attempt 1 was waiting, and
\* the item lies unread in the queue of attempt 0
C27_Witness ==
    /\ pc = "waiting"
    /\ attempt = 1
    /\ outcomes = <<"TimedOut">>
    /\ api_thread[0].st = "finished"
    /\ result_queue[0] # EmptyQueue
    /\ result_queue[1] = EmptyQueue

----------------------------------------------------------------------------
(* The specifications of the pure functions leave get_ai_response idle.    *)

OrchIdle ==
    /\ pc = "idle"
    /\ attempt = 0
    /\ timer = 0
    /\ delay = 0
    /\ sleeps = <<>>
    /\ watchdog = 0
    /\ api_thread = [a \in Attempts |-> NoThread]
    /\ result_queue = [a \in Attempts |-> EmptyQueue]
    /\ outcomes = <<>>
    /\ result = NotReturned
    /\ transportCalls = 0
    /\ networkRequests = 0
    /\ api_key = FALSE

OrchUnchanged ==
    UNCHANGED <<pc, attempt, timer, delay, sleeps, watchdog, api_thread,
                result_queue, outcomes, result, transportCalls, networkRequests,
                api_key>>

Min2(a, b) == IF a <= b THEN a ELSE b
Max2(a, b) == IF a >= b THEN a ELSE b

----------------------------------------------------------------------------
(* _make_simple_ai_request, step 6: token management *)

MAX_TOTAL_TOKENS == 32000
MAX_RESPONSE_TOKENS == 4000
TOKEN_BUFFER == 1000
FloorTokens == 1000         \* max(1000, available_tokens)

\* Bounds: the token counts the planner is tried on
TokenStep == 1000
MaxSystemSteps == 330
UserStep == 250
MaxUserSteps == 4

SystemTokenCounts == {k * TokenStep : k \in 0..MaxSystemSteps}
UserTokenCounts == {k * UserStep : k \in 0..MaxUserSteps}
\* estimate_image_tokens(screenshot) if screenshot else 0
ImageTokenCounts == {0, 400, 600, 1000}

ResponseTokensNoFloor(available) == Min2(MAX_RESPONSE_TOKENS, available)

\* response_tokens = min(MAX_RESPONSE_TOKENS, max(1000, available_tokens))
ResponseTokens(available) == Min2(MAX_RESPONSE_TOKENS, Max2(FloorTokens, available))

PlanInit ==
    /\ OrchIdle
    /\ ui = Idle
    /\ est = Idle
    /\ norm = Idle
    /\ \E s \in SystemTokenCounts, u \in UserTokenCounts, i \in ImageTokenCounts :
         plan = [st |-> "input", system_tokens |-> s, user_tokens |-> u,
                 screenshot_tokens |-> i, available_tokens |-> 0,
                 response_tokens |-> 0]

\* total_input_tokens, available_tokens, response_tokens
PlanTokens ==
    /\ plan.st = "input"
    /\ LET total_input_tokens ==
               plan.system_tokens + plan.user_tokens + plan.screenshot_tokens
           available_tokens == MAX_TOTAL_TOKENS - total_input_tokens - TOKEN_BUFFER
       IN plan' = [plan EXCEPT !.st = "planned",
                               !.available_tokens = available_tokens,
                               !.response_tokens = ResponseTokens(available_tokens)]
    /\ UNCHANGED <<est, norm, ui>>
    /\ OrchUnchanged

PlanNext == PlanTokens

PlanSpec == PlanInit /\ [][PlanNext]_vars

\* C12: for all token counts the response-token cap is
\* max(1000, min(4000, 32000 - system - user - image - 1000)), within 1000..4000.
C12_ResponseCapClamped ==
    plan.st = "planned" =>
        /\ plan.response_tokens =
              Max2(1000, Min2(4000, 32000 - plan.system_tokens - plan.user_tokens
                                      - plan.screenshot_tokens - 1000))
        /\ plan.response_tokens >= 1000
        /\ plan.response_tokens <= 4000

C12_Witness ==
    /\ plan.st = "planned"
    /\ plan.system_tokens + plan.user_tokens + plan.screenshot_tokens >= 320000
    /\ plan.response_tokens = 1000

----------------------------------------------------------------------------
(* estimate_tokens_accurately.  A text is a sequence of characters, each a *)
(* letter "a" or a whitespace " ".                                         *)

MaxTextLen == 7     \* bound: the longest text estimated

RECURSIVE StringsOfLen(_)
StringsOfLen(n) ==
    IF n = 0 THEN {<<>>}
    ELSE {Append(t, c) : t \in StringsOfLen(n - 1), c \in {"a", " "}}

Strings == UNION {StringsOfLen(n) : n \in 0..MaxTextLen}

\* len(str(text).split()): the maximal runs of non-whitespace characters
WordCount(t) ==
    Cardinality({i \in 1..Len(t) : t[i] # " " /\ (i = 1 \/ t[i - 1] = " ")})

\* int((char_count / 3.5 + word_count * 1.3) / 2 * 1.1), in exact arithmetic:
\* (c * 10/35 + w * 13/10) * 11/20 = 11 * (20 c + 91 w) / 1400
Estimated(t) == (11 * (20 * Len(t) + 91 * WordCount(t))) \div 1400

EstimateTokensNoFloor(t) ==
    IF t = <<>> THEN 0 ELSE Estimated(t)

EstimateTokensByWordLength(t) ==
    IF t = <<>> THEN 0
    ELSE Max2(Len(t) \div Max2(WordCount(t), 1), WordCount(t))

\* if not text: return 0 ... return max(estimated, word_count)
estimate_tokens_accurately(t) ==
    IF t = <<>> THEN 0 ELSE Max2(Estimated(t), WordCount(t))

EstInit ==
    /\ OrchIdle
    /\ ui = Idle
    /\ plan = Idle
    /\ norm = Idle
    /\ \E t \in Strings : est = [st |-> "input", text |-> t, tokens |-> 0]

EstimateText ==
    /\ est.st = "input"
    /\ est' = [est EXCEPT !.st = "estimated",
                          !.tokens = estimate_tokens_accurately(est.text)]
    /\ UNCHANGED <<plan, norm, ui>>
    /\ OrchUnchanged

\* a second call, on the text followed by a non-empty text t
ExtendText ==
    /\ est.st = "estimated"
    /\ \E t \in Strings \ {<<>>} :
          /\ Len(est.text) + Len(t) <= MaxTextLen
          /\ est' = [st |-> "extended",
                     text |-> est.text \o t,
                     tokens |-> estimate_tokens_accurately(est.text \o t),
                     prefix |-> est.text,
                     prefixTokens |-> est.tokens]
    /\ UNCHANGED <<plan, norm, ui>>
    /\ OrchUnchanged

EstNext == EstimateText \/ ExtendText

EstSpec == EstInit /\ [][EstNext]_vars

\* C20: the estimate of the empty text is 0, and the estimate of a non-empty
\* text is at least its number of whitespace-separated words.
C20_EstimateAtLeastWords ==
    est.st = "estimated" =>
        /\ (Len(est.text) = 0 => est.tokens = 0)
        /\ (Len(est.text) > 0 => est.tokens >= WordCount(est.text))

C20_Witness ==
    /\ est.st = "estimated"
    /\ est.text = <<"a", " ", "a">>
    /\ WordCount(est.text) = 2
    /\ Estimated(est.text) = 1
    /\ est.tokens = 2

\* C21: the estimate of a text followed by another text is at least the
\* estimate of the text alone, also when the two join in the middle of a
\* word.
C21_MonotoneUnderConcatenation ==
    est.st = "extended" => est.tokens >= est.prefixTokens

\* "a a" followed by "a a": the words at the seam merge, 2 + 2 words give 3
C21_Witness ==
    /\ est.st = "extended"
    /\ est.prefix = <<"a", " ", "a">>
    /\ est.text = <<"a", " ", "a", "a", " ", "a">>
    /\ WordCount(est.text) = 3
    /\ est.prefixTokens = 2
    /\ est.tokens = 3

----------------------------------------------------------------------------
(* estimate_image_tokens.  An image is known by its length in bytes; 0     *)
(* stands for no image (None).                                             *)

BytesPerKB == 1024
SmallImageKB == 100
MediumImageKB == 300
MaxImageKB == 320   \* bound: the largest image estimated

ImageSizes ==
    {0} \cup {kb * BytesPerKB + off :
                 kb \in 0..MaxImageKB, off \in {1, BytesPerKB - 1, BytesPerKB}}

EstimateImageTokensInclusive(bytes) ==
    IF bytes = 0 THEN 0
    ELSE IF bytes <= SmallImageKB * BytesPerKB THEN 400
    ELSE IF bytes <= MediumImageKB * BytesPerKB THEN 600
    ELSE 1000

\* size_kb = len(image_bytes) / 1024; size_kb < 100 exactly when the length
\* is below 100 * 1024
estimate_image_tokens(bytes) ==
    IF bytes = 0 THEN 0
    ELSE IF bytes < SmallImageKB * BytesPerKB THEN 400
    ELSE IF bytes < MediumImageKB * BytesPerKB THEN 600
    ELSE 1000

ImgInit ==
    /\ OrchIdle
    /\ ui = Idle
    /\ plan = Idle
    /\ norm = Idle
    /\ \E n \in ImageSizes : est = [st |-> "image", bytes |-> n, tokens |-> 0]

EstimateImage ==
    /\ est.st = "image"
    /\ est' = [est EXCEPT !.st = "image_estimated",
                          !.tokens = estimate_image_tokens(est.bytes)]
    /\ UNCHANGED <<plan, norm, ui>>
    /\ OrchUnchanged

ImgNext == EstimateImage

ImgSpec == ImgInit /\ [][ImgNext]_vars

\* C22: no image costs 0 tokens, an image below 100 KB costs 400, one from
\* 100 KB up to but excluding 300 KB costs 600, one of 300 KB or more costs
\* 1000.
C22_ImageTiers ==
    est.st = "image_estimated" =>
        est.tokens =
            IF est.bytes = 0 THEN 0
            ELSE IF est.bytes <= SmallImageKB * BytesPerKB - 1 THEN 400
            ELSE IF est.bytes >= MediumImageKB * BytesPerKB THEN 1000
            ELSE 600

\* an image of exactly 100 KB was estimated at 600
C22_Witness ==
    /\ est.st = "image_estimated"
    /\ est.bytes = SmallImageKB * BytesPerKB
    /\ est.tokens = 600

----------------------------------------------------------------------------
(* extract_json_from_response: the values it handles.                      *)
(*                                                                         *)
(* A string is known by what it holds (id) and by the lengths of its       *)
(* leading whitespace, its trimmed core and its trailing whitespace.  Any  *)
(* other scalar (a number, null) is known by the length of its str() and   *)
(* its truth value.  A dict is the sequence of its items in insertion      *)
(* order.                                                                  *)

Str(id, l, c, t) == [ty |-> "str", id |-> id, lead |-> l, core |-> c, trail |-> t]
Obj(id, n, truth) == [ty |-> "obj", id |-> id, repr |-> n, truthy |-> truth]
List(items) == [ty |-> "list", items |-> items]
Dict(items) == [ty |-> "dict", items |-> items]

SLen(s) == s.lead + s.core + s.trail
SStrip(s) == [s EXCEPT !.lead = 0, !.trail = 0]

\* s[:n]
STake(s, n) ==
    LET l == Min2(s.lead, n)
        c == Min2(s.core, n - l)
        t == Min2(s.trail, n - l - c)
    IN [s EXCEPT !.lead = l, !.core = c, !.trail = t]

Keys(d) == {d.items[i][1] : i \in DOMAIN d.items}
Has(d, k) == k \in Keys(d)
Get(d, k) == d.items[CHOOSE i \in DOMAIN d.items : d.items[i][1] = k][2]
\* d.get(k, default)
GetOr(d, k, default) == IF Has(d, k) THEN Get(d, k) ELSE default
\* d[k] = v: an existing key keeps its place, a new key goes last
Put(d, k, v) ==
    IF Has(d, k)
    THEN Dict([i \in DOMAIN d.items |->
                  IF d.items[i][1] = k THEN <<k, v>> ELSE d.items[i]])
    ELSE Dict(Append(d.items, <<k, v>>))

KeyLen(k) ==
    CASE k = "response" -> 8
      [] k = "code_blocks" -> 11
      [] k = "links" -> 5
      [] k = "suggested_questions" -> 19
      [] k = "content" -> 7
      [] k = "text" -> 4
      [] k = "message" -> 7
      [] k = "answer" -> 6
      [] k = "note" -> 4
      [] k = "language" -> 8
      [] k = "code" -> 4
      [] k = "description" -> 11
      [] k = "url" -> 3
      [] k = "title" -> 5
      [] OTHER -> 5

\* len(repr(v)): quotes around a string, brackets, ", " and ": " separators
RECURSIVE ReprLen(_)
RECURSIVE ReprLenItems(_, _)
ReprLen(v) ==
    CASE v.ty = "str" -> SLen(v) + 2
      [] v.ty = "obj" -> v.repr
      [] v.ty \in {"list", "dict"} ->
            2 + ReprLenItems(v, Len(v.items))
                + (IF Len(v.items) > 1 THEN 2 * (Len(v.items) - 1) ELSE 0)
ReprLenItems(v, n) ==
    IF n = 0 THEN 0
    ELSE ReprLenItems(v, n - 1)
         + (IF v.ty = "dict"
            THEN KeyLen(v.items[n][1]) + 4 + ReprLen(v.items[n][2])
            ELSE ReprLen(v.items[n]))

\* str(v)
PyStr(v) ==
    CASE v.ty = "str" -> v
      [] v.ty = "obj" -> Str(v.id, 0, v.repr, 0)
      [] OTHER -> Str("repr", 0, ReprLen(v), 0)

\* bool(v)
Truth(v) ==
    CASE v.ty = "str" -> SLen(v) > 0
      [] v.ty = "obj" -> v.truthy
      [] OTHER -> Len(v.items) > 0

\* dict equality takes no account of the order of the items
RECURSIVE AsMap(_)
AsMap(v) ==
    CASE v.ty = "dict" -> [k \in Keys(v) |-> AsMap(Get(v, k))]
      [] v.ty = "list" -> [ty |-> "list",
                           items |-> [i \in DOMAIN v.items |-> AsMap(v.items[i])]]
      [] OTHER -> v
PyEq(a, b) == AsMap(a) = AsMap(b)

----------------------------------------------------------------------------
(* The fixed sentences and question sets of the normalizer.                *)

MinResponseChars == 10
MaxResponseChars == 3000
MaxQuestions == 6
MinRemainderChars == 20

\* a string literal of the source: its text and its length
Lit(s, n) == Str(s, 0, n, 0)
EmptyStr == Lit("", 0)
EmptyList == List(<<>>)

ValidatePlaceholder ==
    Lit("AI response was received but the content could not be properly extracted. Please try asking your question again.", 112)
FallbackPlaceholder ==
    Lit("AI response was received but could not be processed properly. Please try asking your question again.", 100)
ContentPlaceholder ==
    Lit("AI response received but content could not be extracted properly.", 65)
TooShortMessage == Lit("Response was too short or empty", 31)

ValidateQuestions ==
    List(<<Lit("How do I understand this better?", 32),
           Lit("What are the practical next steps?", 34),
           Lit("Can you explain the key concepts?", 33),
           Lit("How do I troubleshoot issues?", 29),
           Lit("What are the best practices here?", 33),
           Lit("How can I optimize my approach?", 31)>>)
FallbackQuestions ==
    List(<<Lit("Can you explain this step by step?", 34),
           Lit("How do I implement this solution?", 33),
           Lit("What are the best practices here?", 33),
           Lit("Are there any alternatives I should consider?", 45),
           Lit("What potential issues should I watch for?", 41),
           Lit("How can I optimize this approach?", 33)>>)
ContentQuestions ==
    List(<<Lit("Can you explain this in more detail?", 36),
           Lit("What should I do next?", 22),
           Lit("Are there any potential issues?", 31),
           Lit("How can I improve this further?", 31),
           Lit("What are the best practices here?", 33),
           Lit("Can you provide alternatives?", 29)>>)
ManualQuestions ==
    List(<<Lit("Can you walk me through this step by step?", 42),
           Lit("How do I troubleshoot any issues here?", 38),
           Lit("What are the best practices for this?", 37),
           Lit("How can I improve my workflow?", 30),
           Lit("What should I learn more about?", 31),
           Lit("Are there better tools for this task?", 37)>>)

Schema(response, code_blocks, links, questions) ==
    Dict(<< <<"response", response>>,
            <<"code_blocks", code_blocks>>,
            <<"links", links>>,
            <<"suggested_questions", questions>> >>)

----------------------------------------------------------------------------
(* create_fallback_response                                                *)

FallbackText(text) ==
    LET clean_text == IF Truth(text) THEN SStrip(PyStr(text)) ELSE EmptyStr
    IN STake(IF SLen(clean_text) < MinResponseChars THEN FallbackPlaceholder
             ELSE clean_text,
             MaxResponseChars)

create_fallback_response(text) ==
    Schema(FallbackText(text), EmptyList, EmptyList, FallbackQuestions)

----------------------------------------------------------------------------
(* validate_and_fix_json_structure                                         *)

\* the trimmed length of str(v)
StrippedLen(v) == SStrip(PyStr(v)).core

\* response is absent: the first truthy of content, text, message, answer,
\* else str(data)
BackfillMissing(data) ==
    LET content == GetOr(data, "content", EmptyStr)
        text == GetOr(data, "text", EmptyStr)
        message == GetOr(data, "message", EmptyStr)
        answer == GetOr(data, "answer", EmptyStr)
    IN IF Truth(content) THEN content
       ELSE IF Truth(text) THEN text
       ELSE IF Truth(message) THEN message
       ELSE IF Truth(answer) THEN answer
       ELSE PyStr(data)

IsLongString(value) == value.ty = "str" /\ SStrip(value).core > MinResponseChars

\* response is present but falsy or short: the first item, in the order of
\* the dict, whose value is a string longer than 10 once trimmed
BackfillShort(data) ==
    LET hits == {i \in DOMAIN data.items : IsLongString(data.items[i][2])}
    IN IF hits = {} THEN data
       ELSE Put(data, "response", data.items[Min(hits)][2])

FixResponse(data) ==
    IF ~Has(data, "response")
    THEN Put(data, "response", BackfillMissing(data))
    ELSE IF ~Truth(Get(data, "response"))
            \/ StrippedLen(Get(data, "response")) < MinResponseChars
         THEN BackfillShort(data)
         ELSE data

FixList(data, field) ==
    IF ~Has(data, field) THEN Put(data, field, EmptyList)
    ELSE IF Get(data, field).ty # "list" THEN Put(data, field, EmptyList)
    ELSE data

FinalResponseTrimmed(response) ==
    LET text == SStrip(PyStr(response))
    IN IF ~Truth(text) \/ text.core < MinResponseChars
       THEN ValidatePlaceholder
       ELSE text

\* lines 626-630: the response becomes a string, and the placeholder if it
\* is empty or shorter than 10 once trimmed
FinalResponse(response) ==
    LET text == PyStr(response)
    IN IF ~Truth(text) \/ SStrip(text).core < MinResponseChars
       THEN ValidatePlaceholder
       ELSE text

ValidBlock(block) ==
    Dict(<< <<"language", PyStr(GetOr(block, "language", Lit("text", 4)))>>,
            <<"code", PyStr(GetOr(block, "code", EmptyStr))>>,
            <<"description", PyStr(GetOr(block, "description", Lit("Code block", 10)))>> >>)

ValidLink(link) ==
    Dict(<< <<"url", PyStr(Get(link, "url"))>>,
            <<"title", PyStr(GetOr(link, "title", Lit("Link", 4)))>>,
            <<"description", PyStr(GetOr(link, "description", EmptyStr))>> >>)

ValidCodeBlocks(blocks) ==
    LET IsDict(b) == b.ty = "dict"
        kept == SelectSeq(blocks.items, IsDict)
    IN List([i \in DOMAIN kept |-> ValidBlock(kept[i])])

ValidLinks(links) ==
    LET HasUrl(l) == l.ty = "dict" /\ Has(l, "url")
        kept == SelectSeq(links.items, HasUrl)
    IN List([i \in DOMAIN kept |-> ValidLink(kept[i])])

IsQuestion(q) == q.ty = "str" /\ SStrip(q).core > 0

CapQuestionsOneMore(qs) == SubSeq(qs, 1, Min2(Len(qs), MaxQuestions + 1))

CapQuestions(qs) == SubSeq(qs, 1, Min2(Len(qs), MaxQuestions))

ValidQuestions(questions) ==
    LET kept == SelectSeq(questions.items, IsQuestion)
        valid_questions == [i \in DOMAIN kept |-> SStrip(kept[i])]
    IN List(CapQuestions(IF valid_questions = <<>>
                         THEN ValidateQuestions.items
                         ELSE valid_questions))

validate_and_fix_json_structure(data) ==
    IF data.ty # "dict" THEN create_fallback_response(PyStr(data))
    ELSE LET d1 == FixResponse(data)
             d2 == FixList(d1, "code_blocks")
             d3 == FixList(d2, "links")
             d4 == FixList(d3, "suggested_questions")
             d5 == Put(d4, "response", FinalResponse(Get(d4, "response")))
             d6 == Put(d5, "code_blocks", ValidCodeBlocks(Get(d5, "code_blocks")))
             d7 == Put(d6, "links", ValidLinks(Get(d6, "links")))
         IN Put(d7, "suggested_questions",
                ValidQuestions(Get(d7, "suggested_questions")))

----------------------------------------------------------------------------
(* A raw reply text, seen through what the parser and the regular          *)
(* expressions of extract_json_from_response find in it:                   *)
(*   pad    leading whitespace, len: length once trimmed                   *)
(*   json   what json.loads(cleaned_text) gives, NoJson for JSONDecodeError*)
(*   bare, fenced, anchored                                                *)
(*          the matches of the three brace patterns, of the two fenced     *)
(*          patterns and of the line-anchored pattern, in the order        *)
(*          findall gives them: for each match the parse of                *)
(*          clean_json_string(c) and of fix_common_json_issues(c)          *)
(*   blocks the ```lang code``` matches, urls: the URL matches             *)
(*   rest   length of the text once the code blocks are removed, blank     *)
(*          lines collapsed and the whole trimmed                          *)
(*   lines  length of the first ten trimmed lines longer than 10, joined   *)
(*   raises where an exception other than JSONDecodeError happens          *)

NoJson == [ty |-> "nojson"]
NoOutput == [ty |-> "none"]

RawText(x) == Str("raw", x.pad, x.len, 0)
CleanedText(x) == IF x.ty = "text" THEN SStrip(RawText(x)) ELSE SStrip(PyStr(x))

\* lines 373, 410, 421: a truthy response longer than 10 once trimmed
HasContent(parsed) ==
    /\ parsed.ty = "dict"
    /\ Has(parsed, "response")
    /\ Truth(Get(parsed, "response"))
    /\ StrippedLen(Get(parsed, "response")) > MinResponseChars

\* lines 381-400: the matches of json_patterns, pattern after pattern.  The
\* slice from the first { to the last } is taken only when no pattern
\* matched, and then there is no { followed by a }: it adds nothing.
PotentialJsons(x) == x.bare \o x.fenced \o x.anchored

\* lines 406-427: what one candidate yields, NoOutput when it is passed over
TryCandidate(c) ==
    IF c.clean # NoJson
    THEN IF HasContent(c.clean) THEN validate_and_fix_json_structure(c.clean)
         ELSE NoOutput
    ELSE IF c.fixed # NoJson /\ HasContent(c.fixed)
         THEN validate_and_fix_json_structure(c.fixed)
         ELSE NoOutput

ContentBlock(b) ==
    LET language == IF Truth(b.language) THEN b.language ELSE Lit("text", 4)
    IN Dict(<< <<"language", language>>,
               <<"code", b.code>>,
               <<"description", Lit("Code block in language", 14 + SLen(language))>> >>)

ManualBlock(b) ==
    Dict(<< <<"language", IF Truth(b.language) THEN b.language ELSE Lit("text", 4)>>,
            <<"code", b.code>>,
            <<"description", Lit("Extracted code block", 20)>> >>)

ContentLink(u) ==
    Dict(<< <<"url", u.url>>,
            <<"title", Lit("title from context", 18)>>,
            <<"description", Lit("Extracted URL from response", 27)>> >>)

ManualLink(u) ==
    Dict(<< <<"url", u.url>>,
            <<"title", Lit("Extracted Link", 14)>>,
            <<"description", Lit("URL found in response", 21)>> >>)

\* the first occurrence of each URL
FirstUrls(urls) ==
    LET First(i) == \A j \in 1..(i - 1) : urls[j].url # urls[i].url
        idx == {i \in DOMAIN urls : First(i)}
        RECURSIVE Pick(_)
        Pick(n) == IF n = 0 THEN <<>>
                   ELSE IF n \in idx THEN Append(Pick(n - 1), urls[n])
                   ELSE Pick(n - 1)
    IN Pick(Len(urls))

\* lines 481-489
ContentResponse(x) ==
    LET remainder == Str("remainder", 0, x.rest, 0)
        response_text ==
            IF (~Truth(remainder) \/ SLen(remainder) < MinRemainderChars)
               /\ x.lines > 0
            THEN Str("lines", 0, x.lines, 0)
            ELSE remainder
    IN IF Truth(response_text) THEN response_text ELSE ContentPlaceholder

enhanced_content_extraction(x) ==
    LET HasCode(b) == Truth(b.code)
        coded == SelectSeq(x.blocks, HasCode)
        uniq == FirstUrls(x.urls)
    IN Schema(ContentResponse(x),
              List([i \in DOMAIN coded |-> ContentBlock(coded[i])]),
              List([i \in DOMAIN uniq |-> ContentLink(uniq[i])]),
              ContentQuestions)

\* lines 590-591: response[:3000] + "..."
ManualResponse(text) ==
    IF SLen(text) > MaxResponseChars
    THEN Str("raw...", 0, SLen(STake(text, MaxResponseChars)) + 3, 0)
    ELSE text

manual_field_extraction(x) ==
    LET IsHttp(u) == u.http
        http == SelectSeq(x.urls, IsHttp)
    IN Schema(ManualResponse(CleanedText(x)),
              List([i \in DOMAIN x.blocks |-> ManualBlock(x.blocks[i])]),
              List([i \in DOMAIN http |-> ManualLink(http[i])]),
              ManualQuestions)

----------------------------------------------------------------------------
(* The inputs of extract_json_from_response that are explored.             *)

MaxLead == 1
MaxResponseCore == 12
MaxExtras == 2
MaxEntries == 2
MaxCands == 2
MaxSmallLen == 25
MaxExcess == 500

\* "a\n\nb": the shortest text left by collapsing blank lines
MinCollapsed == 4

SeqsUpTo(S, n) == UNION {[1..m -> S] : m \in 0..n}

\* --- objects
GoodResponse == Str("response", MaxLead, MinResponseChars + 6, 0)

ResponseValues ==
    {Str("response", l, c, 0) :
        l \in 0..MaxLead, c \in {0} \cup (MinResponseChars - 1)..MaxResponseCore}
    \cup {Obj("null", 4, FALSE), Obj("number", 5, TRUE), Obj("bignumber", 12, TRUE)}

ExtraKeys == {"content", "text", "message", "answer", "note"}
ExtraValues(k) ==
    {EmptyStr, Str(k, 0, MinResponseChars - 5, 0), Str(k, 0, MinResponseChars + 1, 0),
     Obj(k, 12, TRUE)}
Extras(n) ==
    {e \in SeqsUpTo(UNION {{<<k, v>> : v \in ExtraValues(k)} : k \in ExtraKeys}, n) :
        \A i, j \in DOMAIN e : i # j => e[i][1] # e[j][1]}

FullBlock ==
    Dict(<< <<"language", Lit("py", 2)>>, <<"code", Lit("x=1", 3)>>,
            <<"description", Lit("sets x", 6)>> >>)
BlockEntries ==
    {FullBlock,
     Dict(<< <<"code", Lit("x=1", 3)>> >>),
     Dict(<< <<"code", Obj("code", 1, TRUE)>>, <<"language", Lit("py", 2)>>,
             <<"description", Lit("sets x", 6)>>, <<"file", Lit("a.py", 4)>> >>),
     Lit("not a block", 11)}

FullLink ==
    Dict(<< <<"url", Lit("https://a", 9)>>, <<"title", Lit("A", 1)>>,
            <<"description", Lit("site a", 6)>> >>)
LinkEntries ==
    {FullLink,
     Dict(<< <<"url", Lit("https://a", 9)>> >>),
     Dict(<< <<"title", Lit("A", 1)>>, <<"description", Lit("site a", 6)>> >>),
     Lit("https://a", 9)}

QuestionIds == <<"q1", "q2", "q3", "q4", "q5", "q6", "q7", "q8">>
QuestionEntries ==
    {Lit("q1", 12), Str("q2", 1, 12, 1), Str("blank", 2, 0, 0), Obj("number", 5, TRUE)}
\* n distinct trimmed questions
Questions(n) == List([i \in 1..n |-> Lit(QuestionIds[i], 12)])

ListValues(entries) ==
    {List(l) : l \in SeqsUpTo(entries, MaxEntries)} \cup {Obj("number", 5, TRUE)}

\* items of an object, the absent fields left out
Items(response, code_blocks, links, questions, extras) ==
    (IF response = NoOutput THEN <<>> ELSE << <<"response", response>> >>)
    \o extras
    \o (IF code_blocks = NoOutput THEN <<>> ELSE << <<"code_blocks", code_blocks>> >>)
    \o (IF links = NoOutput THEN <<>> ELSE << <<"links", links>> >>)
    \o (IF questions = NoOutput THEN <<>> ELSE << <<"suggested_questions", questions>> >>)

\* the response varies, with at most one other field
ResponseObjects ==
    {Dict(Items(r, l, l, q, e)) :
        r \in ResponseValues \cup {NoOutput},
        l \in {NoOutput, EmptyList},
        q \in {NoOutput, Questions(1)},
        e \in Extras(1)}

\* the other fields vary, the response is absent, short or long
ExtraObjects ==
    {Dict(Items(r, NoOutput, NoOutput, NoOutput, e)) :
        r \in {NoOutput, Str("response", 0, MinResponseChars - 1, 0),
               Str("response", 0, MinResponseChars + 1, 0)},
        e \in Extras(MaxExtras)}

\* the lists vary, one at a time
ListObjects ==
    {Dict(Items(GoodResponse, b, List(<<FullLink>>), Questions(1), <<>>)) :
        b \in ListValues(BlockEntries) \cup {NoOutput}}
    \cup {Dict(Items(GoodResponse, List(<<FullBlock>>), l, Questions(1), <<>>)) :
        l \in ListValues(LinkEntries) \cup {NoOutput}}
    \cup {Dict(Items(GoodResponse, EmptyList, EmptyList, q, <<>>)) :
        q \in ListValues(QuestionEntries) \cup {NoOutput}
              \cup {Questions(n) : n \in (MaxQuestions - 1)..(MaxQuestions + 2)}}

Objects == ResponseObjects \cup ExtraObjects \cup ListObjects

\* --- texts
Text0(pad, len) ==
    [ty |-> "text", pad |-> pad, len |-> len, json |-> NoJson,
     bare |-> <<>>, fenced |-> <<>>, anchored |-> <<>>,
     blocks |-> <<>>, urls |-> <<>>, rest |-> len,
     lines |-> IF len > MinResponseChars THEN len ELSE 0, raises |-> "none"]

TextLens ==
    0..MaxSmallLen
    \cup {MaxResponseChars - 1, MaxResponseChars, MaxResponseChars + 1,
          MaxResponseChars + MaxExcess}

\* prose: blank lines may shrink the remainder, lines may all be short
ProseTexts ==
    UNION {{[Text0(pad, len) EXCEPT !.rest = rest, !.lines = lines, !.raises = f] :
               pad \in 0..MaxLead,
               rest \in {MinCollapsed, MinResponseChars - 1, MinResponseChars,
                         MinRemainderChars - 1, MinRemainderChars, len},
               lines \in {0, MinResponseChars + 1, len},
               f \in {"none", "direct", "content", "manual"}} : len \in TextLens}

CodeMatches ==
    {[language |-> Lit("py", 2), code |-> Lit("x=1", 3)],
     [language |-> EmptyStr, code |-> Lit("x=1", 3)],
     [language |-> Lit("py", 2), code |-> EmptyStr]}
UrlMatches ==
    {[url |-> Lit("https://a", 9), http |-> TRUE],
     [url |-> Lit("https://b", 9), http |-> TRUE],
     [url |-> Lit("www.c", 5), http |-> FALSE]}

\* prose with code blocks and URLs
MarkupTexts ==
    {[Text0(0, MaxSmallLen) EXCEPT !.blocks = b, !.urls = u, !.rest = rest,
                                   !.lines = lines, !.raises = f] :
        b \in SeqsUpTo(CodeMatches, MaxEntries),
        u \in SeqsUpTo(UrlMatches, MaxEntries),
        rest \in {0, 2, MaxSmallLen},
        lines \in {0, MinResponseChars + 1},
        f \in {"none", "content"}}

Parsed ==
    {Dict(Items(GoodResponse, EmptyList, EmptyList, Questions(1), <<>>)),
     Dict(Items(GoodResponse, NoOutput, NoOutput, NoOutput,
                << <<"note", Obj("note", 12, TRUE)>> >>)),
     Dict(Items(Str("response", 0, MinResponseChars, 0), EmptyList, EmptyList,
                Questions(1), <<>>)),
     Dict(Items(NoOutput, NoOutput, NoOutput, NoOutput,
                << <<"content", Str("content", 0, MinResponseChars + 1, 0)>> >>)),
     Dict(Items(EmptyStr, EmptyList, EmptyList, NoOutput, <<>>)),
     List(<<Obj("number", 1, TRUE)>>)}

Boundary == Dict(Items(Str("response", 0, MinResponseChars, 0), NoOutput, NoOutput,
                       NoOutput, <<>>))
Fenced == Dict(Items(Str("fenced response", 0, MinResponseChars + 6, 0), NoOutput,
                     NoOutput, NoOutput, <<>>))

Candidates ==
    {[clean |-> c, fixed |-> NoJson] : c \in Parsed}
    \cup {[clean |-> NoJson, fixed |-> f] : f \in {NoJson, Boundary, Fenced}}

\* text that is JSON, or holds JSON outside a fence
JsonTexts ==
    {[Text0(0, MaxSmallLen) EXCEPT !.json = j, !.bare = c] :
        j \in Parsed \cup {NoJson}, c \in SeqsUpTo(Candidates, MaxCands)}

\* text with a fenced block of JSON, which may stand on lines of its own
FencedTexts ==
    {[Text0(0, MaxSmallLen) EXCEPT !.bare = c, !.fenced = <<f>>,
                                   !.anchored = IF own THEN <<f>> ELSE <<>>] :
        c \in SeqsUpTo(Candidates, MaxCands - 1),
        f \in {[clean |-> Fenced, fixed |-> NoJson],
               [clean |-> NoJson, fixed |-> Fenced],
               [clean |-> NoJson, fixed |-> NoJson]},
        own \in BOOLEAN}

\* the states a text can be in: its length bounds what is found in it, a
\* joined line is longer than 10, and the remainder is empty only when a
\* code block was removed
NormTexts ==
    {x \in ProseTexts \cup MarkupTexts \cup JsonTexts \cup FencedTexts :
        /\ x.rest <= x.len
        /\ x.lines <= x.len
        /\ (x.lines = 0 \/ x.lines > MinResponseChars)
        /\ (x.rest < Min2(x.len, MinCollapsed)
                => \E i \in DOMAIN x.blocks : Truth(x.blocks[i].code))}

NormInputs == Objects \cup NormTexts \cup {Obj("None", 4, FALSE)}

----------------------------------------------------------------------------
(* extract_json_from_response, one step per strategy.                      *)

\* a strategy ran; it raised or not
Ran(strategy, raised) ==
    [norm EXCEPT !.tried = Append(@, strategy),
                 !.raised = IF raised THEN Append(@, strategy) ELSE @]

NormDone(output, path) ==
    norm' = [norm EXCEPT !.st = "done", !.output = output, !.path = path]

\* a strategy ran and the function returned
StrategyDone(strategy, raised, output, path) ==
    norm' = [Ran(strategy, raised) EXCEPT !.st = "done", !.output = output,
                                          !.path = path]

\* a strategy ran and yielded nothing
StrategyPassed(strategy, raised, next) ==
    norm' = [Ran(strategy, raised) EXCEPT !.st = next]

NormInit ==
    /\ OrchIdle
    /\ ui = Idle
    /\ plan = Idle
    /\ est = Idle
    /\ norm \in {[st |-> "input", input |-> x, output |-> NoOutput, path |-> "none",
                   tried |-> <<>>, raised |-> <<>>] : x \in NormInputs}

\* lines 354-356
NormalizeDict ==
    /\ norm.st = "input"
    /\ norm.input.ty = "dict"
    /\ NormDone(validate_and_fix_json_structure(norm.input), "dict")
    /\ UNCHANGED <<plan, est, ui>>
    /\ OrchUnchanged

IsShort(x) == SLen(CleanedText(x)) < MinResponseChars

\* lines 358-366
RejectShort ==
    /\ norm.st = "input"
    /\ norm.input.ty # "dict"
    /\ IsShort(norm.input)
    /\ NormDone(create_fallback_response(TooShortMessage), "too_short")
    /\ UNCHANGED <<plan, est, ui>>
    /\ OrchUnchanged

\* lines 368-378, and 438-440 when the parser raises something else than
\* JSONDecodeError
DirectParse ==
    /\ norm.st = "input"
    /\ norm.input.ty = "text"
    /\ ~IsShort(norm.input)
    /\ IF norm.input.raises = "direct"
       THEN StrategyDone("direct", TRUE,
                         create_fallback_response(RawText(norm.input)), "exception")
       ELSE IF norm.input.json # NoJson
               /\ HasContent(validate_and_fix_json_structure(norm.input.json))
            THEN StrategyDone("direct", FALSE,
                              validate_and_fix_json_structure(norm.input.json), "direct")
            ELSE StrategyPassed("direct", FALSE, "patterns")
    /\ UNCHANGED <<plan, est, ui>>
    /\ OrchUnchanged

\* lines 380-427: the first candidate that yields a result
PatternExtraction ==
    /\ norm.st = "patterns"
    /\ LET cands == PotentialJsons(norm.input)
           hits == {i \in DOMAIN cands : TryCandidate(cands[i]) # NoOutput}
       IN IF hits # {}
          THEN StrategyDone("patterns", FALSE, TryCandidate(cands[Min(hits)]), "pattern")
          ELSE StrategyPassed("patterns", FALSE, "content")
    /\ UNCHANGED <<plan, est, ui>>
    /\ OrchUnchanged

\* lines 429-433: enhanced_content_extraction returns None when it raised
ContentExtraction ==
    /\ norm.st = "content"
    /\ LET raised == norm.input.raises \in {"content", "manual"}
           extracted_data == IF raised THEN NoOutput
                             ELSE enhanced_content_extraction(norm.input)
       IN IF extracted_data # NoOutput /\ Truth(Get(extracted_data, "response"))
          THEN StrategyDone("content", raised, extracted_data, "content")
          ELSE StrategyPassed("content", raised, "manual")
    /\ UNCHANGED <<plan, est, ui>>
    /\ OrchUnchanged

\* lines 435-436, and 596-598 when manual_field_extraction raised
ManualExtraction ==
    /\ norm.st = "manual"
    /\ IF norm.input.raises = "manual"
       THEN StrategyDone("manual", TRUE,
                         create_fallback_response(CleanedText(norm.input)),
                         "manual_fallback")
       ELSE StrategyDone("manual", FALSE, manual_field_extraction(norm.input), "manual")
    /\ UNCHANGED <<plan, est, ui>>
    /\ OrchUnchanged

NormNext ==
    \/ NormalizeDict
    \/ RejectShort
    \/ DirectParse
    \/ PatternExtraction
    \/ ContentExtraction
    \/ ManualExtraction

NormSpec == NormInit /\ [][NormNext]_vars

----------------------------------------------------------------------------
(* Properties of extract_json_from_response                                *)

SchemaKeys == {"response", "code_blocks", "links", "suggested_questions"}
Returned == norm.st = "done"
Response == Get(norm.output, "response")
SuggestedQuestions == Get(norm.output, "suggested_questions")

\* C13: whatever the input, the result is a dict whose keys are exactly
\* response, code_blocks, links and suggested_questions, with code_blocks and
\* links being lists.
C13_ExactlyFourKeys ==
    Returned =>
        /\ norm.output.ty = "dict"
        /\ Keys(norm.output) = SchemaKeys
        /\ Get(norm.output, "code_blocks").ty = "list"
        /\ Get(norm.output, "links").ty = "list"

\* C14: in every result the response is a string of trimmed length at
\* least 10.
C14_ResponseAtLeastTen ==
    Returned =>
        /\ Response.ty = "str"
        /\ SStrip(Response).core >= MinResponseChars

FixedQuestionSets ==
    {ValidateQuestions, FallbackQuestions, ContentQuestions, ManualQuestions}

\* the questions of an object that pass validation
UsableQuestions(d) ==
    IF Has(d, "suggested_questions") /\ Get(d, "suggested_questions").ty = "list"
    THEN SelectSeq(Get(d, "suggested_questions").items, IsQuestion)
    ELSE <<>>

\* C15: in every result suggested_questions holds 1 to 6 strings, each
\* non-empty once trimmed; an object without a valid question gets a fixed
\* set of 6, and so does every result that is not read from an object.
C15_QuestionsOneToSix ==
    Returned =>
        /\ SuggestedQuestions.ty = "list"
        /\ Len(SuggestedQuestions.items) \in 1..MaxQuestions
        /\ \A i \in DOMAIN SuggestedQuestions.items :
               IsQuestion(SuggestedQuestions.items[i])
        /\ (norm.path = "dict" /\ UsableQuestions(norm.input) = <<>>
               => /\ SuggestedQuestions = ValidateQuestions
                  /\ Len(SuggestedQuestions.items) = MaxQuestions)
        /\ (norm.path \notin {"dict", "direct", "pattern"}
               => /\ SuggestedQuestions \in FixedQuestionSets
                  /\ Len(SuggestedQuestions.items) = MaxQuestions)

\* an object with more valid questions than the cap was normalized
C15_Witness ==
    /\ Returned
    /\ norm.path = "dict"
    /\ Len(UsableQuestions(norm.input)) > MaxQuestions
    /\ Len(SuggestedQuestions.items) = MaxQuestions

\* C16: a result of manual_field_extraction or create_fallback_response has
\* a response of at most 3000 characters.
C16_FallbackCapped ==
    Returned /\ norm.path \in {"manual", "manual_fallback", "exception", "too_short"}
        => SLen(Response) <= MaxResponseChars

IsTrimmedString(v) == v.ty = "str" /\ v.lead = 0 /\ v.trail = 0 /\ v.core > 0

AllStrings(d, keys) ==
    /\ d.ty = "dict"
    /\ Keys(d) = keys
    /\ \A k \in keys : Get(d, k).ty = "str"

\* an object that already satisfies the schema
WellFormed(d) ==
    /\ d.ty = "dict"
    /\ Keys(d) = SchemaKeys
    /\ Get(d, "response").ty = "str"
    /\ SStrip(Get(d, "response")).core >= MinResponseChars
    /\ Get(d, "code_blocks").ty = "list"
    /\ \A i \in DOMAIN Get(d, "code_blocks").items :
           AllStrings(Get(d, "code_blocks").items[i], {"language", "code", "description"})
    /\ Get(d, "links").ty = "list"
    /\ \A i \in DOMAIN Get(d, "links").items :
           AllStrings(Get(d, "links").items[i], {"url", "title", "description"})
    /\ Get(d, "suggested_questions").ty = "list"
    /\ Len(Get(d, "suggested_questions").items) \in 1..MaxQuestions
    /\ \A i \in DOMAIN Get(d, "suggested_questions").items :
           IsTrimmedString(Get(d, "suggested_questions").items[i])

\* C17: an object that already satisfies the schema is returned equal to
\* itself.
C17_WellFormedUnchanged ==
    Returned /\ WellFormed(norm.input) => PyEq(norm.output, norm.input)

\* a well-formed object with padding around its response, a code block and
\* a link was normalized
C17_Witness ==
    /\ Returned
    /\ WellFormed(norm.input)
    /\ Get(norm.input, "response").lead > 0
    /\ Get(norm.input, "code_blocks").items # <<>>
    /\ Get(norm.input, "links").items # <<>>
    /\ PyEq(norm.output, norm.input)

\* response is missing, falsy or shorter than 10 once trimmed
NeedsBackfill(d) ==
    \/ ~Has(d, "response")
    \/ ~Truth(Get(d, "response"))
    \/ StrippedLen(Get(d, "response")) < MinResponseChars

PreferredKeys == <<"content", "text", "message", "answer">>
HasLong(d, k) == Has(d, k) /\ IsLongString(Get(d, k))

\* C18: a missing or short response is backfilled from content, else text,
\* else message, else answer, else from another string value longer than
\* 10, and is the placeholder sentence only when there is none; missing
\* suggested_questions become the default set of 6.
C18_BackfillPreference ==
    Returned /\ norm.path = "dict" /\ NeedsBackfill(norm.input) =>
        LET d == norm.input
            preferred == {i \in DOMAIN PreferredKeys : HasLong(d, PreferredKeys[i])}
            others == {k \in Keys(d) \ {"response"} : HasLong(d, k)}
        IN /\ IF preferred # {}
              THEN Response = Get(d, PreferredKeys[Min(preferred)])
              ELSE IF others # {}
                   THEN \E k \in others : Response = Get(d, k)
                   ELSE Response = ValidatePlaceholder
           /\ (~Has(d, "suggested_questions")
                  => SuggestedQuestions = ValidateQuestions)

\* C19: for empty raw input the response is the placeholder sentence of
\* schema repair and suggested_questions is the default set of schema
\* validation.
C19_EmptyInputPlaceholder ==
    Returned /\ norm.input.ty = "text" /\ norm.input.len = 0 =>
        /\ Response = ValidatePlaceholder
        /\ SuggestedQuestions = ValidateQuestions

\* the reply text as _make_simple_ai_request holds it
AsReply(x) == Text(x.pad, x.len, 0)

Placeholders == {ValidatePlaceholder, FallbackPlaceholder, ContentPlaceholder}

\* C23: a reply that get_ai_response returns as a success never normalizes
\* to a placeholder response.
C23_SuccessIsNotPlaceholder ==
    Returned /\ norm.input.ty = "text"
             /\ IsSuccess(ExtractResponse(AsReply(norm.input)))
        => Response \notin Placeholders

\* the response field of a parsed object trims to 10 characters or more
Qualifies(parsed) ==
    /\ parsed.ty = "dict"
    /\ Has(parsed, "response")
    /\ Get(parsed, "response").ty = "str"
    /\ SStrip(Get(parsed, "response")).core >= MinResponseChars

ParseOf(c) == IF c.clean # NoJson THEN c.clean ELSE c.fixed

\* C24: an object whose response trims to 10 characters or more, exactly 10
\* included, is accepted: the repaired object by direct parsing, else the
\* first candidate holding such an object by pattern extraction; it is
\* never passed over.
C24_BoundaryAccepted ==
    Returned /\ norm.input.ty = "text" /\ norm.raised = <<>>
             /\ "direct" \in {norm.tried[i] : i \in DOMAIN norm.tried} =>
        LET x == norm.input
            cands == PotentialJsons(x)
            good == {i \in DOMAIN cands : Qualifies(ParseOf(cands[i]))}
            direct == /\ x.json # NoJson
                      /\ Qualifies(validate_and_fix_json_structure(x.json))
        IN /\ (direct => norm.path = "direct")
           /\ (~direct /\ good # {} =>
                  /\ norm.path = "pattern"
                  /\ norm.output =
                        validate_and_fix_json_structure(ParseOf(cands[Min(good)])))

\* C25: when a fenced block holds an object the acceptance test passes, the
\* result of pattern extraction is made from the first such fenced block,
\* whatever the brace patterns match elsewhere in the text.
C25_FencedBeforeBare ==
    Returned /\ norm.input.ty = "text" /\ norm.path = "pattern" =>
        LET fenced == norm.input.fenced
            good == {i \in DOMAIN fenced : TryCandidate(fenced[i]) # NoOutput}
        IN good # {} => norm.output = TryCandidate(fenced[Min(good)])

StrategyOrder == <<"direct", "patterns", "content", "manual">>

\* C26: after a strategy raised, the next strategy of the chain runs, and
\* the manual fallback is the last strategy reached.
C26_ChainContinuesAfterRaise ==
    Returned /\ norm.raised # <<>> =>
        /\ \A i \in 1..3 :
              StrategyOrder[i] \in {norm.raised[j] : j \in DOMAIN norm.raised}
                  => StrategyOrder[i + 1] \in {norm.tried[j] : j \in DOMAIN norm.tried}
        /\ Last(norm.tried) = "manual"

----------------------------------------------------------------------------
(* src/ui.py, AIWorkerThread.run: one run of the thread started for a       *)
(* question.  ui.pc is the place the thread has reached: "try" at the top   *)
(* of a loop iteration, "request" inside _process_ai_request before         *)
(* get_ai_response is called, "returned" after it returned, "done" after    *)
(* run returned.  calls counts the calls of get_ai_response, transports     *)
(* the attempts of those calls that reached the transport, ready and        *)
(* errors the response_ready and error_occurred signals emitted.            *)

WorkerMaxRetries == 2

WorkerRetriesLeftOneMore(a) == a < WorkerMaxRetries + 1

\* attempt < self.max_retries
WorkerRetriesLeft(a) == a < WorkerMaxRetries

RunInit ==
    /\ OrchIdle
    /\ plan = Idle
    /\ est = Idle
    /\ norm = Idle
    /\ ui = [st |-> "run", pc |-> "try", attempt |-> 0, calls |-> 0,
             transports |-> 0, last |-> "none", status |-> 0,
             ready |-> 0, errors |-> 0]

UIUnchanged ==
    /\ UNCHANGED <<plan, est, norm>>
    /\ OrchUnchanged

ExceptWithoutSignal(r) ==
    IF WorkerRetriesLeft(r.attempt)
    THEN [r EXCEPT !.pc = "try", !.attempt = @ + 1]
    ELSE [r EXCEPT !.pc = "done"]

\* the except clause of run, entered from the state r of the thread
Except(r) ==
    IF WorkerRetriesLeft(r.attempt)
    THEN [r EXCEPT !.pc = "try", !.attempt = @ + 1]
    ELSE [r EXCEPT !.pc = "done", !.errors = @ + 1]

\* the top of the try block: a retry emits status_update and sleeps
BeginTry ==
    /\ ui.st = "run"
    /\ ui.pc = "try"
    /\ ui' = [ui EXCEPT !.pc = "request",
                        !.status = IF ui.attempt > 0 THEN @ + 1 ELSE @]
    /\ UIUnchanged

\* get_session_context raised (an exception of the screenshot is caught)
ContextRaises ==
    /\ ui.st = "run"
    /\ ui.pc = "request"
    /\ ui' = Except(ui)
    /\ UIUnchanged

\* get_ai_response returned an error dict after max_retries attempts, n of
\* which reached the transport (none without an API key)
CallReturnsError ==
    /\ ui.st = "run"
    /\ ui.pc = "request"
    /\ \E n \in 0..max_retries :
          ui' = [ui EXCEPT !.pc = "returned", !.calls = @ + 1,
                           !.transports = @ + n, !.last = "error"]
    /\ UIUnchanged

\* get_ai_response returned the reply of its n-th attempt
CallReturnsReply ==
    /\ ui.st = "run"
    /\ ui.pc = "request"
    /\ \E n \in 1..max_retries :
          ui' = [ui EXCEPT !.pc = "returned", !.calls = @ + 1,
                           !.transports = @ + n, !.last = "ok"]
    /\ UIUnchanged

\* get_ai_response raised outside the try block of its loop
CallRaises ==
    /\ ui.st = "run"
    /\ ui.pc = "request"
    /\ ui' = Except([ui EXCEPT !.calls = @ + 1, !.last = "raised"])
    /\ UIUnchanged

\* raise Exception(response["error"])
RaiseOnError ==
    /\ ui.st = "run"
    /\ ui.pc = "returned"
    /\ ui.last = "error"
    /\ ui' = Except(ui)
    /\ UIUnchanged

\* self.response_ready.emit((response, self.question)), and run returns
EmitReady ==
    /\ ui.st = "run"
    /\ ui.pc = "returned"
    /\ ui.last = "ok"
    /\ ui' = [ui EXCEPT !.pc = "done", !.ready = @ + 1]
    /\ UIUnchanged

RunNext ==
    \/ BeginTry
    \/ ContextRaises
    \/ CallReturnsError
    \/ CallReturnsReply
    \/ CallRaises
    \/ RaiseOnError
    \/ EmitReady

RunSpec == RunInit /\ [][RunNext]_vars

\* C29: run calls get_ai_response again only after the call before raised
\* or returned an error, at most 3 times, and so causes at most 9 transport
\* attempts.
C29_AtMostThreeCalls ==
    /\ [](ui.calls <= WorkerMaxRetries + 1
          /\ ui.transports <= (WorkerMaxRetries + 1) * max_retries)
    /\ [][ui'.calls > ui.calls
            => /\ ui'.calls = ui.calls + 1
               /\ ui.calls > 0 => ui.last \in {"error", "raised"}]_vars

\* three calls of get_ai_response failed after three transport attempts each
C29_Witness ==
    /\ ui.st = "run"
    /\ ui.pc = "done"
    /\ ui.calls = 3
    /\ ui.transports = 9
    /\ ui.last = "error"

\* C30: a run that ended emitted exactly one terminal signal: response_ready
\* if a call of get_ai_response returned a reply, otherwise error_occurred
\* after the last failed try; a run that has not ended emitted none.
C30_OneTerminalSignal ==
    /\ ui.pc = "done" =>
          /\ ui.ready + ui.errors = 1
          /\ ui.ready = 1 <=> ui.last = "ok"
          /\ ui.errors = 1 => ui.attempt = WorkerMaxRetries
    /\ ui.pc # "done" => ui.ready + ui.errors = 0

\* a run ended with error_occurred after its third failed try
C30_Witness ==
    /\ ui.st = "run"
    /\ ui.pc = "done"
    /\ ui.attempt = WorkerMaxRetries
    /\ ui.errors = 1
    /\ ui.ready = 0

----------------------------------------------------------------------------
(* src/ui.py, AIBrainUI: the window starts an AIWorkerThread for each       *)
(* question and a single-shot timer of 60 seconds with it; the signals of   *)
(* the threads are queued to the main thread.  A worker is known by the     *)
(* number of the question it was started for.  Durations are not counted:   *)
(* get_ai_response may take from no time to more than the 60 seconds, so    *)
(* the timer may fire before or after any step of a worker.  ui.st is       *)
(* "window" while the process lives and "aborted" after it was aborted.     *)

MaxSubmits == 2          \* bound: the questions submitted

Workers == 1..MaxSubmits

UIInit ==
    /\ OrchIdle
    /\ plan = Idle
    /\ est = Idle
    /\ norm = Idle
    /\ ui = [st |-> "window", ai_worker |-> 0, started |-> 0,
             timer |-> "inactive",
             worker |-> [w \in Workers |-> "none"],
             signals |-> <<>>, reported |-> {},
             shown |-> [kind |-> "none", of |-> 0, latest |-> 0,
                        reported |-> FALSE]]

\* start_ai_processing: quit() asks an event loop to stop, and run() has
\* none, so the previous worker runs on with its signals connected; a new
\* worker and a new timer replace the old ones
StartProcessing ==
    /\ ui.st = "window"
    /\ ui.started < MaxSubmits
    /\ LET w == ui.started + 1
       IN ui' = [ui EXCEPT !.started = w,
                           !.ai_worker = w,
                           !.worker[w] = "running",
                           !.timer = "active"]
    /\ UIUnchanged

\* the run of worker w ends with the terminal signal sig
RunEnds(w, sig) ==
    /\ ui.st = "window"
    /\ ui.worker[w] = "running"
    /\ ui' = [ui EXCEPT !.worker[w] = "finished",
                        !.signals = Append(@, [sig |-> sig, from |-> w])]
    /\ UIUnchanged

\* The window dropped its reference to worker w (lines 2275, 2362) while
\* run was executing: the thread object is deleted when run returns, and
\* deleting a QThread that has not finished may abort the process.  Whether
\* it does is left open: RunEnds is the other outcome.
RunEndsDestroyed(w, sig) ==
    /\ ui.st = "window"
    /\ ui.worker[w] = "running"
    /\ ui.ai_worker # w
    /\ ui' = [ui EXCEPT !.st = "aborted",
                        !.worker[w] = "finished",
                        !.signals = Append(@, [sig |-> sig, from |-> w])]
    /\ UIUnchanged

\* show_final_response and show_error replace what the window displays;
\* latest is the question submitted last at that moment, and reported tells
\* whether an error had been displayed for question w before
Show(kind, w) == [kind |-> kind, of |-> w, latest |-> ui.started,
                  reported |-> w \in ui.reported]

\* handle_ai_timeout: the timer fired
HandleTimeout ==
    /\ ui.st = "window"
    /\ ui.timer = "active"
    /\ IF ui.ai_worker # 0 /\ ui.worker[ui.ai_worker] = "running"
       THEN ui' = [ui EXCEPT !.timer = "inactive",
                             !.shown = Show("error", ui.ai_worker),
                             !.reported = @ \cup {ui.ai_worker},
                             !.ai_worker = 0]
       ELSE ui' = [ui EXCEPT !.timer = "inactive"]
    /\ UIUnchanged

\* handle_ai_response, for the oldest pending signal
HandleResponse ==
    /\ ui.st = "window"
    /\ ui.signals # <<>>
    /\ Head(ui.signals).sig = "response_ready"
    /\ ui' = [ui EXCEPT !.signals = Tail(@),
                        !.timer = "inactive",
                        !.shown = Show("response", Head(ui.signals).from)]
    /\ UIUnchanged

\* handle_ai_error, for the oldest pending signal
HandleError ==
    /\ ui.st = "window"
    /\ ui.signals # <<>>
    /\ Head(ui.signals).sig = "error_occurred"
    /\ ui' = [ui EXCEPT !.signals = Tail(@),
                        !.timer = "inactive",
                        !.shown = Show("error", Head(ui.signals).from),
                        !.reported = @ \cup {Head(ui.signals).from},
                        !.ai_worker = 0]
    /\ UIUnchanged

UINext ==
    \/ StartProcessing
    \/ \E w \in Workers : RunEnds(w, "response_ready")
    \/ \E w \in Workers : RunEnds(w, "error_occurred")
    \/ \E w \in Workers, sig \in {"response_ready", "error_occurred"} :
          RunEndsDestroyed(w, sig)
    \/ HandleTimeout
    \/ HandleResponse
    \/ HandleError

UISpec == UIInit /\ [][UINext]_vars

\* C28: a response that is displayed belongs to the question submitted
\* last, and no error was displayed for that question before it.
C28_NoStaleResponse ==
    ui.shown.kind = "response" =>
        /\ ui.shown.of = ui.shown.latest
        /\ ~ui.shown.reported

====
